---- MODULE Spec2Model ----
(***************************************************************************)
(* Model of the ng-dragdrop drag coordination engine (DragDropService),    *)
(* its DraggableItem records and the DOM state it reads and writes.        *)
(*                                                                         *)
(* Pointer coordinates, element positions and ghost positions are whole    *)
(* pixels.  Viewport rectangles (ClientRect) are kept in HALF pixels so    *)
(* that Math.round has something to round: a pointer coordinate x is       *)
(* compared with a rectangle edge e as 2*x against e.                      *)
(***************************************************************************)
EXTENDS Integers, Sequences, FiniteSets, TLC

\* ------------------------------------------------------------- bounds
MaxRegs == 2        \* registerDraggable calls in one run
MaxX == 3           \* pointer clientX ranges over 0..MaxX
MaxY == 1           \* pointer clientY ranges over 0..MaxY
MaxThreshold == 1   \* startThreshold ranges over 1..MaxThreshold
MaxScroll == 1      \* the container scrolls 0..MaxScroll pixels vertically

Xs == 0 .. MaxX
Ys == 0 .. MaxY
Thresholds == 1 .. MaxThreshold

\* ------------------------------------------------------------- the page
Elements == {"body", "container"}
Selectors == {"#container", "#missing"}
Sources == {"a", "b"}
DropEls == {"t1", "t2"}
Layouts == {"wide", "narrow"}
Targets == {"container", "body", "window"}

\* document.querySelector: "null" when nothing matches.
querySelector(selector) == IF selector = "#container" THEN "container" ELSE "null"

\* Element.getBoundingClientRect of a viewport candidate, in half pixels.
\* The body fills the window; the container sits inside it and shrinks when
\* the window is resized to the narrow layout.
getBoundingClientRect(e, layout) ==
    IF e = "body"
    THEN [left |-> 0, top |-> 0, right |-> 2 * MaxX, bottom |-> 2 * MaxY]
    ELSE IF layout = "wide"
         THEN [left |-> 1, top |-> 1, right |-> 7, bottom |-> 2 * MaxY + 1]
         ELSE [left |-> 1, top |-> 1, right |-> 5, bottom |-> 2 * MaxY + 1]

\* How far an element can scroll: the body has no overflow, the container
\* overflows vertically only.
maxScrollLeft(e) == 0
maxScrollTop(e) == IF e = "container" THEN MaxScroll ELSE 0

\* The drag sources are children of the container, so their client position
\* moves with the container's scroll offset.  Whole pixels.
srcBaseLeft(el) == IF el = "a" THEN 0 ELSE 2
srcBaseTop == 1
srcWidth(el) == IF el = "a" THEN 1 ELSE 0
elRect(el, scroll) ==
    [left |-> srcBaseLeft(el) - scroll["container"].left,
     top  |-> srcBaseTop - scroll["container"].top]

\* Math.round of a half-pixel quantity, in whole pixels (halves round up).
Round(h) == (h + 1) \div 2

\* Math.abs
Abs(n) == IF n < 0 THEN -n ELSE n

\* A point is inside an element when the element's real rectangle holds it.
Inside(rect, x, y) ==
    /\ 2 * x >= rect.left /\ 2 * x <= rect.right
    /\ 2 * y >= rect.top  /\ 2 * y <= rect.bottom

\* ------------------------------------------------------------- state
VARIABLES
    draggables,          \* DragDropService._draggables
    lastMousePos,        \* <<>> for {}, else <<x, y>>
    viewportElement,     \* _viewportElement
    viewportRect,        \* _viewportRect (cached)
    moveSub,             \* element of viewportMouseMoveSubscription while subscribed, else "none"
    moveLeaked,          \* per element: subscribed mousemove subscriptions the service no longer holds
    resizeSub,           \* TRUE while viewportResizeSubscription is subscribed
    resizeLeaked,        \* subscribed resize subscriptions the service no longer holds
    upListeners,         \* per element: armed one-shot viewport mouseup listeners
    downListeners,       \* per element: armed one-shot viewport mousedown listeners
    winUp, winKey, winBlur,  \* armed one-shot window listeners
    viewportCursor,      \* saved cursor, "undefined" until first saved
    scrollXInterval,     \* timer behind the handle: "none", "dec" or "inc"
    scrollYInterval,
    timers,              \* per axis: auto-scroll interval timers that are running
    cursor,              \* per element: style.cursor
    scroll,              \* per element: [left, top] scroll offsets
    layout,              \* current window layout
    classes,             \* per drag source and drop target element: its classList
    ghosts,              \* per element and record id: ghost elements of that record among its children
    regs,                \* registrations so far
    delivered,           \* per record id: broadcasts delivered so far, per channel
    emitted,             \* broadcasts delivered during the last reaction
    droppables,          \* the DroppableDirective instances subscribed to the service
    notified,            \* what the drop targets emitted to their hosts during the last reaction
    cursorBefore,        \* the viewport's cursor just before the registration that began the activation
    last                 \* the last reaction: what ran and with which input

vars == <<draggables, lastMousePos, viewportElement,
          viewportRect, moveSub, moveLeaked, resizeSub, resizeLeaked,
          upListeners, downListeners, winUp, winKey, winBlur,
          viewportCursor, scrollXInterval, scrollYInterval, timers, cursor, scroll,
          layout, classes, ghosts, regs, delivered, emitted, droppables, notified,
          cursorBefore, last>>

\* The service and the DOM it touches as one record, threaded through the
\* methods below.
Svc ==
    [draggables |-> draggables, lastMousePos |-> lastMousePos,
     lastDisplacement |-> <<>>, viewportElement |-> viewportElement,
     viewportRect |-> viewportRect, moveSub |-> moveSub, moveLeaked |-> moveLeaked,
     resizeSub |-> resizeSub, resizeLeaked |-> resizeLeaked,
     upListeners |-> upListeners,
     downListeners |-> downListeners, winUp |-> winUp, winKey |-> winKey,
     winBlur |-> winBlur, viewportCursor |-> viewportCursor,
     scrollXInterval |-> scrollXInterval, scrollYInterval |-> scrollYInterval,
     timers |-> timers, cursor |-> cursor, scroll |-> scroll, layout |-> layout,
     classes |-> classes, ghosts |-> ghosts, regs |-> regs, delivered |-> delivered,
     emitted |-> <<>>, droppables |-> droppables, notified |-> <<>>]

\* The ids of the records that are dragging.
Dragging(ds) == {ds[i].id : i \in {j \in 1 .. Len(ds) : ds[j].isDragging}}

\* What has been observed of a record since it was registered: its false->true
\* changes of isDragging and the broadcasts delivered for it.
MaxCount == 3
NoneDelivered == [started |-> 0, dragging |-> 0, dropping |-> 0]

Commit(s) ==
    /\ draggables' = s.draggables
    /\ lastMousePos' = s.lastMousePos
    /\ viewportElement' = s.viewportElement
    /\ viewportRect' = s.viewportRect
    /\ moveSub' = s.moveSub
    /\ moveLeaked' = s.moveLeaked
    /\ resizeSub' = s.resizeSub
    /\ resizeLeaked' = s.resizeLeaked
    /\ upListeners' = s.upListeners
    /\ downListeners' = s.downListeners
    /\ winUp' = s.winUp
    /\ winKey' = s.winKey
    /\ winBlur' = s.winBlur
    /\ viewportCursor' = s.viewportCursor
    /\ scrollXInterval' = s.scrollXInterval
    /\ scrollYInterval' = s.scrollYInterval
    /\ timers' = s.timers
    /\ cursor' = s.cursor
    /\ scroll' = s.scroll
    /\ layout' = s.layout
    /\ classes' = s.classes
    /\ ghosts' = s.ghosts
    /\ regs' = s.regs
    /\ delivered' = [id \in 1 .. MaxRegs |->
                        IF \E i \in 1 .. Len(s.draggables) : s.draggables[i].id = id
                        THEN [s.delivered[id] EXCEPT !.started =
                                IF /\ id \in Dragging(s.draggables)
                                   /\ id \notin Dragging(draggables)
                                   /\ @ < MaxCount
                                THEN @ + 1 ELSE @]
                        ELSE NoneDelivered]
    /\ emitted' = s.emitted
    /\ droppables' = s.droppables
    /\ notified' = s.notified

\* ------------------------------------------------------------- helpers
\* CSSStyleDeclaration.cursor accepts only values the browser can parse; an
\* assignment of anything else (undefined included) leaves the style as it was.
ValidCursors == {"", "crosshair", "pointer", "grabbing", "-webkit-grabbing"}
setCursor(s, e, value) ==
    IF value \in ValidCursors THEN [s EXCEPT !.cursor[e] = value] ELSE s

\* value + 'px'
Px(n) == <<n, "px">>

\* Node.appendChild / Node.removeChild of a record's ghost element.
appendChild(s, e, id) == [s EXCEPT !.ghosts[e][id] = @ + 1]
removeChild(s, e, id) == [s EXCEPT !.ghosts[e][id] = @ - 1]

\* The ghost elements of record id attached anywhere in the page.
Attached(g, id) == g["body"][id] + g["container"][id]

\* DragDropService.addClasses / removeClasses: nothing for an empty class string.
removeClasses(s, el, cls) ==
    IF cls = "" THEN s ELSE [s EXCEPT !.classes[el] = @ \ {cls}]

addClasses(s, el, cls) ==
    IF cls = "" THEN s ELSE [s EXCEPT !.classes[el] = @ \cup {cls}]

\* ------------------------------------------------------------- DroppableDirective
\* A directive instance t is an index into s.droppables.  Its record holds its
\* inputs (droppable, acceptDrop, droppableClasses, notDroppableClasses,
\* hoverDelay), its private fields (dragging, isDropTarget, the two saved
\* subscriptions, hoverTimer), whether an earlier pair of mouse subscriptions
\* that it no longer holds is still subscribed (leaked), and whether the
\* pointer is over its host element (hover).  A saved subscription is
\* "undefined" until onDragging$ assigns it, then "open" or "closed".
\* droppingSubscribed is the constructor's subscription to dropping$; uncaught
\* is the error, if any, that left one of the directive's subscribers and was
\* reported as uncaught; errorUnsubscribes tells whether the Subscriber of the
\* RxJS build unsubscribes a subscriber whose next handler threw (RxJS 6 does,
\* RxJS 7 does not).

\* The host's answer to a test-drop notification: it sets the directive's
\* acceptDrop in its (synchronous) handler.  This host accepts a drag source
\* on the drop target of the same parity: "a" on "t1", "b" on "t2".
hostAccepts(data, droppable) ==
    \/ data = "a" /\ droppable = "d1"
    \/ data = "b" /\ droppable = "d2"

\* EventEmitter(false).emit: the host's handler runs before emit returns.
\* Each notification is kept with the record the directive had received, as
\* it was at that moment.
emitTestDrop(s, t, received, payload) ==
    [s EXCEPT !.notified = Append(@, [kind |-> "testDrop", target |-> t,
                                      received |-> received, payload |-> payload]),
              !.droppables[t].acceptDrop = hostAccepts(payload.draggable, payload.droppable)]

emitDrop(s, t, received, payload) ==
    [s EXCEPT !.notified = Append(@, [kind |-> "drop", target |-> t,
                                      received |-> received, payload |-> payload])]

\* The cancelled flag the drop payload carries.
dropCancelled(draggable) == draggable.cancelled

droppableRemoveClasses(s, t) ==
    LET o == s.droppables[t]
    IN  removeClasses(removeClasses(s, o.el, o.droppableClasses), o.el, o.notDroppableClasses)

\* A faulty variant: the host is not asked.
onDragging_NoTestDrop(s, t, draggable) ==
    [s EXCEPT !.droppables[t].leaked = @ \/ s.droppables[t].mouseEnterSubscription = "open",
              !.droppables[t].mouseEnterSubscription = "open",
              !.droppables[t].mouseLeaveSubscription = "open",
              !.droppables[t].dragging = TRUE]

\* A new pair of mouseenter / mouseleave subscriptions replaces the saved
\* handles; a pair that was still subscribed stays subscribed.
onDragging(s, t, draggable) ==
    LET o == s.droppables[t]
        s1 == emitTestDrop(s, t, draggable,
                           [draggable |-> draggable.data, droppable |-> o.droppable])
    IN  [s1 EXCEPT !.droppables[t].leaked = @ \/ o.mouseEnterSubscription = "open",
                   !.droppables[t].mouseEnterSubscription = "open",
                   !.droppables[t].mouseLeaveSubscription = "open",
                   !.droppables[t].dragging = TRUE]

\* A faulty variant: the hit state and the classes are left as they are.
onDropping_NoReset(s, t, draggable) ==
    LET o == s.droppables[t]
        s1 == emitDrop(s, t, draggable,
                       [draggable |-> draggable.data, droppable |-> o.droppable,
                        isDropTarget |-> o.isDropTarget,
                        cancelled |-> dropCancelled(draggable)])
    IN  [s1 EXCEPT !.droppables[t].dragging = FALSE,
                   !.droppables[t].mouseEnterSubscription = "closed",
                   !.droppables[t].mouseLeaveSubscription = "closed"]

\* this.mouseEnterSubscription.unsubscribe() on a handle that was never
\* assigned throws a TypeError: the statements after it do not run, the error
\* leaves the subscriber's next handler and is reported as uncaught, and the
\* subscription to dropping$ ends if the RxJS build ends it on such an error.
onDropping(s, t, draggable) ==
    LET o == s.droppables[t]
        s1 == emitDrop(s, t, draggable,
                       [draggable |-> draggable.data, droppable |-> o.droppable,
                        isDropTarget |-> o.isDropTarget,
                        cancelled |-> dropCancelled(draggable)])
        s2 == [s1 EXCEPT !.droppables[t].dragging = FALSE]
        s3 == [s2 EXCEPT !.droppables[t].mouseEnterSubscription = "closed",
                         !.droppables[t].mouseLeaveSubscription = "closed",
                         !.droppables[t].isDropTarget = FALSE]
    IN  IF o.mouseEnterSubscription = "undefined"
        THEN [s2 EXCEPT !.droppables[t].uncaught = "TypeError",
                        !.droppables[t].droppingSubscribed = ~o.errorUnsubscribes]
        ELSE droppableRemoveClasses(s3, t)

\* A faulty variant: the accept flag is not looked at.
onMouseEnter_AlwaysDroppable(s, t) ==
    LET o == s.droppables[t]
        s1 == [s EXCEPT !.droppables[t].isDropTarget = TRUE]
    IN  IF ~o.dragging THEN s
        ELSE removeClasses(addClasses(s1, o.el, o.droppableClasses),
                           o.el, o.notDroppableClasses)

onMouseEnter(s, t) ==
    LET o == s.droppables[t]
        s1 == [s EXCEPT !.droppables[t].isDropTarget = TRUE]
    IN  IF ~o.dragging THEN s
        ELSE IF o.acceptDrop
             THEN removeClasses(addClasses(s1, o.el, o.droppableClasses),
                                o.el, o.notDroppableClasses)
             ELSE removeClasses(addClasses(s1, o.el, o.notDroppableClasses),
                                o.el, o.droppableClasses)

onMouseLeave(s, t) ==
    LET s1 == [s EXCEPT !.droppables[t].isDropTarget = FALSE]
    IN  IF ~s.droppables[t].dragging THEN s
        ELSE droppableRemoveClasses(s1, t)

\* The subscribers of the host element's mouseenter and mouseleave events.
\* hoverTimer is <<>> (no timer pending) or <<n>>, n the time left before the
\* delayed onMouseEnter runs.
mouseenterSubscriber(s, t) ==
    [s EXCEPT !.droppables[t].hoverTimer = <<s.droppables[t].hoverDelay>>]

\* A faulty variant: the pending timer is not cleared.
mouseleaveSubscriber_NoClear(s, t) == onMouseLeave(s, t)

mouseleaveSubscriber(s, t) ==
    onMouseLeave([s EXCEPT !.droppables[t].hoverTimer = <<>>], t)

\* The subscribers of dragging$ and dropping$, in the order the directives
\* were constructed; a subscription that has ended receives nothing.
RECURSIVE deliver(_, _, _, _)
deliver(s, channel, draggable, t) ==
    IF t > Len(s.droppables) THEN s
    ELSE deliver(IF channel = "dragging" THEN onDragging(s, t, draggable)
                 ELSE IF s.droppables[t].droppingSubscribed
                      THEN onDropping(s, t, draggable)
                      ELSE s,
                 channel, draggable, t + 1)

\* Subject.next: every subscriber receives the record as it is at that moment,
\* before next returns; attached is the number of the record's ghost elements
\* in the page at that moment.
next(s, channel, d) ==
    deliver([s EXCEPT !.emitted = Append(@, [channel |-> channel, draggable |-> d,
                                             attached |-> Attached(s.ghosts, d.id)]),
                      !.delivered[d.id][channel] = IF @ < MaxCount THEN @ + 1 ELSE @],
            channel, d, 1)

\* ------------------------------------------------------------- DragDropService
\* A faulty variant: no fallback to the body when nothing matches.
setViewportElement_NoFallback(s, selector) ==
    LET q == querySelector(selector)
        e == IF q # "null" THEN q ELSE s.viewportElement
    IN  [s EXCEPT !.viewportElement = e,
                  !.viewportRect = getBoundingClientRect(e, s.layout)]

setViewportElement(s, selector) ==
    LET q == querySelector(selector)
        e == IF q # "null" THEN q ELSE "body"
    IN  [s EXCEPT !.viewportElement = e,
                  !.viewportRect = getBoundingClientRect(e, s.layout)]

dragStart(s) ==
    [s EXCEPT !.viewportRect = getBoundingClientRect(s.viewportElement, s.layout),
              !.lastMousePos = <<>>,
              !.lastDisplacement = <<>>]

\* activate: new move and resize subscriptions replace the saved handles (a
\* handle that was still subscribed stays subscribed, unreachable), and five
\* one-shot listeners are armed.
activate(s) ==
    LET s1 == dragStart(s)
        e == s1.viewportElement
    IN  [s1 EXCEPT
            !.moveLeaked = IF s1.moveSub # "none"
                           THEN [@ EXCEPT ![s1.moveSub] = @ + 1] ELSE @,
            !.moveSub = e,
            !.resizeLeaked = IF s1.resizeSub THEN @ + 1 ELSE @,
            !.resizeSub = TRUE,
            !.upListeners = [@ EXCEPT ![e] = @ + 1],
            !.downListeners = [@ EXCEPT ![e] = @ + 1],
            !.winUp = @ + 1,
            !.winKey = @ + 1,
            !.winBlur = @ + 1]

\* clearInterval(handle) stops the timer the handle refers to, if it still
\* runs; setInterval starts a timer and the handle then refers to it (a timer
\* the handle referred to keeps running).
clearInterval(s, axis) ==
    IF axis = "x"
    THEN IF s.scrollXInterval = "none" THEN s
         ELSE [s EXCEPT !.scrollXInterval = "none", !.timers.x = @ - 1]
    ELSE IF s.scrollYInterval = "none" THEN s
         ELSE [s EXCEPT !.scrollYInterval = "none", !.timers.y = @ - 1]

setInterval(s, axis, dir) ==
    IF axis = "x"
    THEN [s EXCEPT !.scrollXInterval = dir,
                   !.timers.x = IF @ < MaxCount THEN @ + 1 ELSE @]
    ELSE [s EXCEPT !.scrollYInterval = dir,
                   !.timers.y = IF @ < MaxCount THEN @ + 1 ELSE @]

\* A faulty variant: the timers are left running.
clearScrollIntervals_None(s) == s

clearScrollIntervals(s) == clearInterval(clearInterval(s, "x"), "y")

\* A faulty variant: the early return for a record that is not dragging is missing.
endItemDrag_NoGuard(s, i, cancelled) ==
    LET d2 == [s.draggables[i] EXCEPT !.isDragging = FALSE, !.cancelled = cancelled]
    IN  next([s EXCEPT !.draggables[i] = d2], "dropping", d2)

endItemDrag(s, i, cancelled) ==
    LET d == s.draggables[i]
        d2 == [d EXCEPT !.isDragging = FALSE, !.cancelled = cancelled]
    IN  IF ~d.isDragging THEN s
        ELSE next([s EXCEPT !.draggables[i] = d2], "dropping", d2)

\* A faulty variant: the reference is dropped but the element stays in the page.
destroyDraggableElement_NoRemove(s, i) ==
    IF s.draggables[i].dragEl # <<>>
    THEN [s EXCEPT !.draggables[i].dragEl = <<>>]
    ELSE s

destroyDraggableElement(s, i) ==
    IF s.draggables[i].dragEl # <<>>
    THEN [removeChild(s, s.viewportElement, s.draggables[i].id)
            EXCEPT !.draggables[i].dragEl = <<>>]
    ELSE s

\* A faulty variant: the records are torn down without endItemDrag.
RECURSIVE dragStopLoop_NoEnd(_, _, _)
dragStopLoop_NoEnd(s, i, cancelled) ==
    IF i > Len(s.draggables) THEN s
    ELSE LET s2 == removeClasses(s, s.draggables[i].el, s.draggables[i].draggedClass)
             s3 == destroyDraggableElement(s2, i)
         IN  dragStopLoop_NoEnd(s3, i + 1, cancelled)

RECURSIVE dragStopLoop(_, _, _)
dragStopLoop(s, i, cancelled) ==
    IF i > Len(s.draggables) THEN s
    ELSE LET s1 == endItemDrag(s, i, cancelled)
             s2 == removeClasses(s1, s1.draggables[i].el, s1.draggables[i].draggedClass)
             s3 == destroyDraggableElement(s2, i)
         IN  dragStopLoop(s3, i + 1, cancelled)

dragStop(s, cancelled) ==
    LET s1 == dragStopLoop(s, 1, cancelled)
    IN  setCursor(s1, s1.viewportElement, s1.viewportCursor)

deactivate(s, cancelled) ==
    LET s1 == [s EXCEPT !.moveSub = "none", !.resizeSub = FALSE]
        s2 == dragStop(s1, cancelled)
        s3 == [s2 EXCEPT !.draggables = <<>>]
    IN  clearScrollIntervals(s3)

createDraggableElement(s, i) ==
    LET d == s.draggables[i]
        r == elRect(d.el, s.scroll)
        pos == <<r.left, r.top>>
        grabPoint == <<d.mouseDownEvent.clientX - pos[1],
                       d.mouseDownEvent.clientY - pos[2]>>
        dragEl == [parent |-> s.viewportElement,
                   classes |-> IF d.draggingClass = "" THEN {} ELSE {d.draggingClass},
                   left |-> Px(pos[1]),
                   top |-> Px(pos[2]),
                   visibility |-> "hidden"]
    IN  [appendChild(s, s.viewportElement, d.id)
            EXCEPT !.draggables[i].pos = pos,
                   !.draggables[i].grabPoint = grabPoint,
                   !.draggables[i].dragEl = <<dragEl>>]

\* A faulty variant: the early return for a record already dragging is missing.
beginItemDrag_NoGuard(s, i) ==
    LET e == s.viewportElement
        s1 == [s EXCEPT !.viewportCursor = s.cursor[e]]
        s2 == setCursor(setCursor(setCursor(s1, e, "pointer"), e, "grabbing"),
                        e, "-webkit-grabbing")
        s3 == createDraggableElement(s2, i)
        s4 == [s3 EXCEPT !.draggables[i].isDragging = TRUE,
                         !.draggables[i].dragEl[1].visibility = "visible"]
        s5 == addClasses(s4, s4.draggables[i].el, s4.draggables[i].draggedClass)
    IN  next(s5, "dragging", s5.draggables[i])

beginItemDrag(s, i) ==
    IF s.draggables[i].isDragging THEN s
    ELSE LET e == s.viewportElement
             s1 == [s EXCEPT !.viewportCursor = s.cursor[e]]
             s2 == setCursor(setCursor(setCursor(s1, e, "pointer"), e, "grabbing"),
                             e, "-webkit-grabbing")
             s3 == createDraggableElement(s2, i)
             s4 == [s3 EXCEPT !.draggables[i].isDragging = TRUE,
                              !.draggables[i].dragEl[1].visibility = "visible"]
             s5 == addClasses(s4, s4.draggables[i].el, s4.draggables[i].draggedClass)
         IN  next(s5, "dragging", s5.draggables[i])

\* A faulty variant: a pointer on an edge counts as outside.
isMouseOutsideViewport_EdgeOutside(s, mouseX, mouseY) ==
    \/ 2 * mouseX <= s.viewportRect.left
    \/ 2 * mouseX >= s.viewportRect.right
    \/ 2 * mouseY <= s.viewportRect.top
    \/ 2 * mouseY >= s.viewportRect.bottom

isMouseOutsideViewport(s, mouseX, mouseY) ==
    \/ 2 * mouseX < s.viewportRect.left
    \/ 2 * mouseX > s.viewportRect.right
    \/ 2 * mouseY < s.viewportRect.top
    \/ 2 * mouseY > s.viewportRect.bottom

\* A faulty variant: the grab point is taken again from where the source is now.
moveDraggableElement_Regrab(s, i, left, top) ==
    LET d == s.draggables[i]
        r == elRect(d.el, s.scroll)
        g == <<d.mouseDownEvent.clientX - r.left, d.mouseDownEvent.clientY - r.top>>
        pos == <<left - g[1], top - g[2]>>
    IN  [s EXCEPT !.draggables[i].grabPoint = g,
                  !.draggables[i].pos = pos,
                  !.draggables[i].dragEl[1].left = Px(pos[1]),
                  !.draggables[i].dragEl[1].top = Px(pos[2])]

moveDraggableElement(s, i, left, top) ==
    LET g == s.draggables[i].grabPoint
        pos == <<left - g[1], top - g[2]>>
    IN  [s EXCEPT !.draggables[i].pos = pos,
                  !.draggables[i].dragEl[1].left = Px(pos[1]),
                  !.draggables[i].dragEl[1].top = Px(pos[2])]

bottomBias == 3
rightBias == 2

scrollViewportAsNeeded(s, x, y) ==
    LET s1 == clearScrollIntervals(s)
        e == s1.viewportElement
        r == s1.viewportRect
        s2 == IF x <= Round(r.left) /\ s1.scroll[e].left > 0
              THEN setInterval(s1, "x", "dec")
              ELSE IF x >= Round(r.right - 2 * rightBias)
                   THEN setInterval(s1, "x", "inc")
                   ELSE s1
    IN  IF y <= Round(r.top) /\ s2.scroll[e].top > 0
        THEN setInterval(s2, "y", "dec")
        ELSE IF y >= Round(r.bottom - 2 * bottomBias)
             THEN setInterval(s2, "y", "inc")
             ELSE s2

startThresholdPassed(d, x, y) ==
    \/ Abs(d.mouseDownEvent.clientX - x) >= d.startThreshold
    \/ Abs(d.mouseDownEvent.clientY - y) >= d.startThreshold

RECURSIVE moveLoop(_, _, _, _)
moveLoop(s, i, x, y) ==
    IF i > Len(s.draggables) THEN s
    ELSE IF startThresholdPassed(s.draggables[i], x, y)
         THEN moveLoop(moveDraggableElement(beginItemDrag(s, i), i, x, y), i + 1, x, y)
         ELSE moveLoop(s, i + 1, x, y)

\* lastMousePos.x - event.clientX || 0 : NaN (no last position) and 0 both give 0.
displacement(lastPos, x, y) ==
    IF lastPos = <<>> THEN <<0, 0>> ELSE <<lastPos[1] - x, lastPos[2] - y>>

\* A faulty variant: the pointer position is recorded before the outside check.
onViewportMouseMove_TrackFirst(s, x, y) ==
    LET s1 == scrollViewportAsNeeded(s, x, y)
        s2 == [s1 EXCEPT !.lastDisplacement = displacement(s1.lastMousePos, x, y),
                         !.lastMousePos = <<x, y>>]
    IN  IF isMouseOutsideViewport(s1, x, y) THEN s2
        ELSE IF s2.lastDisplacement = <<0, 0>> THEN s2
        ELSE moveLoop(s2, 1, x, y)

onViewportMouseMove(s, x, y) ==
    LET s1 == scrollViewportAsNeeded(s, x, y)
        s2 == [s1 EXCEPT !.lastDisplacement = displacement(s1.lastMousePos, x, y),
                         !.lastMousePos = <<x, y>>]
    IN  IF isMouseOutsideViewport(s1, x, y) THEN s1
        ELSE IF s2.lastDisplacement = <<0, 0>> THEN s2
        ELSE moveLoop(s2, 1, x, y)

\* A faulty variant: the release is reported as an abort.
onVieportMouseUp_Abort(s) == deactivate(s, "true")

onVieportMouseUp(s) == deactivate(s, "undefined")

registerDraggable(s, event, el, data, containerSelector, draggingClass, draggedClass, startThreshold) ==
    LET s1 == setViewportElement(s, containerSelector)
        draggable == [id |-> s.regs + 1,
                      el |-> el,
                      dragEl |-> <<>>,
                      data |-> data,
                      draggedClass |-> draggedClass,
                      draggingClass |-> draggingClass,
                      mouseDownEvent |-> event,
                      pos |-> <<>>,
                      grabPoint |-> <<>>,
                      startThreshold |-> startThreshold,
                      isDragging |-> FALSE,
                      cancelled |-> "false"]
        s2 == [s1 EXCEPT !.draggables = Append(@, draggable), !.regs = @ + 1]
    IN  activate(s2)

\* ------------------------------------------------------------- reactions
\* What ran last: the event, its target or outcome, how many records were
\* tracked and which were dragging when it began.
Reaction(op, outcome) ==
    [op |-> op, outcome |-> outcome, n |-> Len(draggables),
     pre |-> Dragging(draggables)]

\* The handlers of the one-shot listeners armed in activate.
onAbort(s) == deactivate(s, "true")

\* A one-shot listener armed n times runs its handler n times on one event.
RECURSIVE fireUp(_, _)
fireUp(s, n) == IF n = 0 THEN s ELSE fireUp(onVieportMouseUp(s), n - 1)

RECURSIVE fire(_, _)
fire(s, n) == IF n = 0 THEN s ELSE fire(onAbort(s), n - 1)

\* Where a pointer-down on a drag source can be: on the source element and in
\* the visible part of the container.
OriginPoints(el) ==
    LET r == elRect(el, scroll)
    IN  {p \in Xs \X Ys :
            /\ p[1] >= r.left /\ p[1] <= r.left + srcWidth(el)
            /\ p[2] >= r.top  /\ p[2] <= r.top + 1
            /\ Inside(getBoundingClientRect("container", layout), p[1], p[2])}

draggedClasses(el) == IF el = "a" THEN "dragged" ELSE ""
draggingClasses(el) == IF el = "a" THEN "ghost" ELSE ""

\* The service after construction and the page before any event.
InitService ==
    /\ draggables = <<>>
    /\ lastMousePos = <<>>
    /\ viewportElement = "body"
    /\ viewportRect = getBoundingClientRect("body", "wide")
    /\ moveSub = "none"
    /\ moveLeaked = [e \in Elements |-> 0]
    /\ resizeSub = FALSE
    /\ resizeLeaked = 0
    /\ upListeners = [e \in Elements |-> 0]
    /\ downListeners = [e \in Elements |-> 0]
    /\ winUp = 0
    /\ winKey = 0
    /\ winBlur = 0
    /\ viewportCursor = "undefined"
    /\ scrollXInterval = "none"
    /\ scrollYInterval = "none"
    /\ timers = [x |-> 0, y |-> 0]
    /\ cursor = [e \in Elements |-> IF e = "body" THEN "" ELSE "crosshair"]
    /\ scroll = [e \in Elements |-> [left |-> 0, top |-> 0]]
    /\ layout = "wide"
    /\ classes = [el \in Sources \cup DropEls |-> {}]
    /\ ghosts = [e \in Elements |-> [id \in 1 .. MaxRegs |-> 0]]
    /\ regs = 0
    /\ delivered = [id \in 1 .. MaxRegs |-> NoneDelivered]
    /\ emitted = <<>>
    /\ notified = <<>>
    /\ cursorBefore = ""
    /\ last = [op |-> "init", outcome |-> "", n |-> 0, pre |-> {}]

\* The service on a page without drop targets.
Init ==
    /\ InitService
    /\ droppables = <<>>

\* DraggableDirective.onMouseDown: a primary pointer-down on a drag source.
\* While records are tracked the selector resolves to the current viewport
\* (the engine supports no change of viewport during a drag).
RegisterDraggable ==
    \E el \in Sources, sel \in Selectors, t \in Thresholds :
    \E p \in OriginPoints(el) :
        LET q == querySelector(sel)
            e == IF q # "null" THEN q ELSE "body"
        IN  /\ regs < MaxRegs
            /\ draggables = <<>> \/ e = viewportElement
            /\ Commit(registerDraggable(Svc, [clientX |-> p[1], clientY |-> p[2]],
                        el, el, sel, draggingClasses(el), draggedClasses(el), t))
            /\ cursorBefore' = IF draggables = <<>> THEN cursor[e] ELSE cursorBefore
            /\ last' = Reaction("registerDraggable", sel)

\* Which return of onViewportMouseMove a move takes.
moveOutcome(s, x, y) ==
    IF isMouseOutsideViewport(s, x, y) THEN "outside"
    ELSE IF displacement(s.lastMousePos, x, y) = <<0, 0>> THEN "still"
    ELSE "processed"

\* One sampled mousemove delivered by a subscription on element e.
SampledMove ==
    \E e \in Elements, x \in Xs, y \in Ys :
        /\ moveSub = e \/ moveLeaked[e] > 0
        /\ Inside(getBoundingClientRect(e, layout), x, y)
        /\ Commit(onViewportMouseMove(Svc, x, y))
        /\ last' = Reaction("mousemove", moveOutcome(Svc, x, y))
        /\ UNCHANGED cursorBefore

\* A mouseup whose innermost target among container, body and window is tgt;
\* it bubbles container -> body -> window.
MouseUp ==
    \E tgt \in Targets :
        LET nc == IF tgt = "container" THEN upListeners["container"] ELSE 0
            nb == IF tgt \in {"container", "body"} THEN upListeners["body"] ELSE 0
            s1 == fireUp(Svc, nc)
            s2 == fireUp(s1, nb)
            s3 == fire(s2, winUp)
        IN  /\ nc + nb + winUp > 0
            /\ Commit([s3 EXCEPT
                        !.upListeners = [e \in Elements |->
                            IF e = "container" /\ tgt = "container" THEN 0
                            ELSE IF e = "body" /\ tgt \in {"container", "body"} THEN 0
                            ELSE @[e]],
                        !.winUp = 0])
            /\ last' = Reaction("mouseup", tgt)
            /\ UNCHANGED cursorBefore

\* A mousedown that reaches the viewport listeners (not one a drag source
\* handled and stopped).
MouseDown ==
    \E tgt \in Elements :
        LET nc == IF tgt = "container" THEN downListeners["container"] ELSE 0
            nb == downListeners["body"]
            s1 == fire(fire(Svc, nc), nb)
        IN  /\ nc + nb > 0
            /\ Commit([s1 EXCEPT
                        !.downListeners = [e \in Elements |->
                            IF e = "container" /\ tgt = "body" THEN @[e] ELSE 0]])
            /\ last' = Reaction("mousedown", tgt)
            /\ UNCHANGED cursorBefore

KeyDown ==
    /\ winKey > 0
    /\ Commit([fire(Svc, winKey) EXCEPT !.winKey = 0])
    /\ last' = Reaction("keydown", "")
    /\ UNCHANGED cursorBefore

Blur ==
    /\ winBlur > 0
    /\ Commit([fire(Svc, winBlur) EXCEPT !.winBlur = 0])
    /\ last' = Reaction("blur", "")
    /\ UNCHANGED cursorBefore

\* The window is resized: the container's real rectangle changes at once, the
\* engine hears of it only after the debounce.
WindowResize ==
    \E l \in Layouts :
        /\ l # layout
        /\ Commit([Svc EXCEPT !.layout = l])
        /\ last' = Reaction("resize", "")
        /\ UNCHANGED cursorBefore

\* The debounced resize reaches a subscribed resize subscription.  A delivery
\* that would cache the rectangle already cached changes nothing and is left out.
onResize(s) ==
    [s EXCEPT !.viewportRect = getBoundingClientRect(s.viewportElement, s.layout)]

ResizeDebounced ==
    /\ resizeSub \/ resizeLeaked > 0
    /\ viewportRect # getBoundingClientRect(viewportElement, layout)
    /\ Commit(onResize(Svc))
    /\ last' = Reaction("resizeDebounced", "")
    /\ UNCHANGED cursorBefore

\* One tick of a running auto-scroll timer; the browser clamps the offset.
Clamp(n, max) == IF n < 0 THEN 0 ELSE IF n > max THEN max ELSE n
Step(dir) == IF dir = "inc" THEN 1 ELSE -1

ScrollTick ==
    \E axis \in {"x", "y"} :
        LET e == viewportElement
            dir == IF axis = "x" THEN scrollXInterval ELSE scrollYInterval
        IN  /\ dir # "none"
            /\ Commit([Svc EXCEPT
                        !.scroll[e] = IF axis = "x"
                                      THEN [@ EXCEPT !.left = Clamp(@ + Step(dir), maxScrollLeft(e))]
                                      ELSE [@ EXCEPT !.top = Clamp(@ + Step(dir), maxScrollTop(e))]])
            /\ last' = Reaction("scrollTick", axis)
            /\ UNCHANGED cursorBefore

Next ==
    \/ RegisterDraggable
    \/ SampledMove
    \/ MouseUp
    \/ MouseDown
    \/ KeyDown
    \/ Blur
    \/ WindowResize
    \/ ResizeDebounced
    \/ ScrollTick

Spec == Init /\ [][Next]_vars

\* ------------------------------------------------------------- direct calls
\* The service driven through its public methods as well: besides
\* registrations, moves and mouseups, a caller ends the drag of one tracked
\* record with endItemDrag, any number of times.  A record ended this way
\* stays tracked and keeps its element, and a later qualifying move begins its
\* drag again with a new element; MaxGhosts bounds how many it gathers.
MaxGhosts == 2
Cancelled == {"false", "true", "undefined"}

EndItemDrag ==
    \E i \in 1 .. Len(draggables), c \in Cancelled :
        /\ draggables[i].isDragging => Attached(ghosts, draggables[i].id) < MaxGhosts
        /\ Commit(endItemDrag(Svc, i, c))
        /\ last' = Reaction("endItemDrag", [i |-> i, cancelled |-> c])
        /\ UNCHANGED cursorBefore

EndNext ==
    \/ RegisterDraggable
    \/ SampledMove
    \/ MouseUp
    \/ EndItemDrag

EndSpec == Init /\ [][EndNext]_vars

TypeOK ==
    /\ Len(draggables) <= MaxRegs
    /\ viewportElement \in Elements
    /\ scrollXInterval \in {"none", "dec", "inc"}
    /\ scrollYInterval \in {"none", "dec", "inc"}

\* removeChild is only ever asked to remove a ghost from the element that holds
\* it: every ghost of a tracked record is a child of the current viewport.
GhostParentIsViewport ==
    \A i \in 1 .. Len(draggables) :
        draggables[i].dragEl # <<>> =>
            /\ draggables[i].dragEl[1].parent = viewportElement
            /\ ghosts[viewportElement][draggables[i].id] >= 1

\* -------------------------------------------------------------- claims
EndOps == {"mouseup", "mousedown", "keydown", "blur"}

\* The pointer position of the last move that got past the viewport check.
MoveX == lastMousePos[1]
MoveY == lastMousePos[2]
MoveInside == last.op = "mousemove" /\ last.outcome \in {"still", "processed"}

\* A mouseup on the current viewport element (on it or on a descendant).
UpOnViewport ==
    /\ last.op = "mouseup"
    /\ \/ last.outcome = viewportElement
       \/ last.outcome = "container" /\ viewportElement = "body"

\* The reactions that end a drag by an abort route.
AbortRoute ==
    \/ last.op \in {"mousedown", "keydown", "blur"}
    \/ last.op = "mouseup" /\ ~UpOnViewport

Droppings == {k \in 1 .. Len(emitted) : emitted[k].channel = "dropping"}

\* C1: after every sampled move delivered inside the viewport rectangle (the
\* first one after registration included) whose position is more than the
\* record's threshold away from the origin on some axis, the record is
\* dragging: it has a visible ghost and its 'dragging' broadcast was delivered.
C1_MoveBeyondThresholdStartsDrag ==
    MoveInside =>
        \A i \in 1 .. Len(draggables) :
            LET d == draggables[i]
            IN  (\/ Abs(d.mouseDownEvent.clientX - MoveX) > d.startThreshold
                 \/ Abs(d.mouseDownEvent.clientY - MoveY) > d.startThreshold)
                =>  /\ d.isDragging
                    /\ d.dragEl # <<>>
                    /\ d.dragEl[1].visibility = "visible"
                    /\ Attached(ghosts, d.id) = 1
                    /\ delivered[d.id].dragging >= 1

\* C2: isDragging is false when registerDraggable returns, it becomes true
\* only in a processed move, and a processed move whose displacement from the
\* origin is at or below the threshold on both axes does not start the drag
\* (so a dragging record has seen a move strictly beyond its threshold).
C2_StartsOnlyStrictlyBeyondThreshold ==
    /\ last.op = "registerDraggable" => ~draggables[Len(draggables)].isDragging
    /\ \A i \in 1 .. Len(draggables) :
        LET d == draggables[i]
        IN  (d.isDragging /\ d.id \notin last.pre) =>
                /\ last.op = "mousemove" /\ last.outcome = "processed"
                /\ \/ Abs(d.mouseDownEvent.clientX - MoveX) > d.startThreshold
                   \/ Abs(d.mouseDownEvent.clientY - MoveY) > d.startThreshold

\* C3: after every processed move, the ghost of every dragging record is at
\* (pointerX - grabPoint.x, pointerY - grabPoint.y), wherever the pointer is
\* relative to the origin.
C3_GhostFollowsPointer ==
    (last.op = "mousemove" /\ last.outcome = "processed") =>
        \A i \in 1 .. Len(draggables) :
            LET d == draggables[i]
                want == <<MoveX - d.grabPoint[1], MoveY - d.grabPoint[2]>>
            IN  d.isDragging =>
                    /\ d.pos = want
                    /\ d.dragEl[1].left = Px(want[1])
                    /\ d.dragEl[1].top = Px(want[2])

\* C4: between reactions and inside every 'dragging' or 'dropping' subscriber
\* callback, a record has exactly one ghost attached to the viewport if it is
\* dragging and none if it is not.
C4_GhostIffDragging ==
    /\ \A i \in 1 .. Len(draggables) :
        LET d == draggables[i]
        IN  /\ d.isDragging => /\ ghosts[viewportElement][d.id] = 1
                               /\ Attached(ghosts, d.id) = 1
            /\ ~d.isDragging => Attached(ghosts, d.id) = 0
    /\ \A k \in 1 .. Len(emitted) :
        emitted[k].attached = IF emitted[k].draggable.isDragging THEN 1 ELSE 0

\* C5: when a drag is ended by an abort route (mousedown on the viewport,
\* keydown, blur, mouseup outside the current viewport), every 'dropping'
\* broadcast and every drop payload carries cancelled = true.
C5_AbortIsCancelled ==
    AbortRoute =>
        \A k \in Droppings :
            /\ emitted[k].draggable.cancelled = "true"
            /\ dropCancelled(emitted[k].draggable) = "true"

Falsy(c) == c \in {"false", "undefined"}

\* C6: a mouseup on the viewport that ends an active drag delivers exactly one
\* 'dropping' per dragging record, with cancelled falsy, and nothing else;
\* the release leaves no record tracked, and an end event that finds no record
\* dragging (as every one does until the next registration) delivers no
\* broadcast.
C6_ReleaseDropsOnce ==
    /\ (UpOnViewport /\ last.pre # {}) =>
        /\ \A id \in last.pre :
            Cardinality({k \in Droppings : emitted[k].draggable.id = id}) = 1
        /\ \A k \in 1 .. Len(emitted) :
            /\ emitted[k].channel = "dropping"
            /\ emitted[k].draggable.id \in last.pre
            /\ Falsy(emitted[k].draggable.cancelled)
    /\ UpOnViewport => Dragging(draggables) = {} /\ Len(draggables) = 0
    /\ (last.op \in EndOps /\ last.pre = {}) => emitted = <<>>

C6_Witness ==
    /\ UpOnViewport
    /\ Cardinality(last.pre) = 2
    /\ Len(emitted) = 2

\* C7: after deactivate returns, by release or by any abort route, whether or
\* not a record had passed its threshold, no ghost element is attached to any
\* viewport and the record collection is empty.
C7_DeactivateLeavesNoGhost ==
    last.op \in EndOps =>
        /\ draggables = <<>>
        /\ \A e \in Elements : \A id \in 1 .. MaxRegs : ghosts[e][id] = 0

C7_Witness ==
    /\ last.op = "blur"
    /\ last.pre # {}
    /\ last.n = 2

\* C8: after deactivate returns, the viewport's cursor is the one it had just
\* before the registration that began the activation.
C8_CursorRestored ==
    (last.op \in EndOps /\ last.n > 0) => cursor[viewportElement] = cursorBefore

\* C9: after deactivate returns, no mousemove or resize subscription the
\* engine created is still subscribed.
C9_NoSubscriptionLeft ==
    last.op \in EndOps =>
        /\ moveSub = "none"
        /\ \A e \in Elements : moveLeaked[e] = 0
        /\ ~resizeSub
        /\ resizeLeaked = 0

\* C10: between its registration and its removal a record's isDragging goes
\* from false to true at most once, and the 'dragging' broadcast is delivered
\* exactly once for a record whose drag has started, however many qualifying
\* moves follow.
C10_DragStartsOnce ==
    \A i \in 1 .. Len(draggables) :
        LET d == draggables[i]
            o == delivered[d.id]
        IN  /\ o.started <= 1
            /\ o.dragging = o.started
            /\ d.isDragging => o.started = 1

C10_Witness ==
    /\ last.op = "mousemove" /\ last.outcome = "processed"
    /\ \E i \in 1 .. Len(draggables) :
        /\ draggables[i].isDragging
        /\ draggables[i].id \in last.pre
        /\ startThresholdPassed(draggables[i], MoveX, MoveY)

\* ------------------------------------------------------------- drop targets
\* The service on a page with two drop targets, side by side outside each
\* other: "t1" processes a mouseenter at once (hoverDelay 0), "t2" after
\* MaxHoverDelay units of time.  The drags are those of Spec with fewer inputs:
\* one origin per drag source, the container as viewport, one row of pointer
\* positions, no scrolling and no resize.
MaxHoverDelay == 1

DroppableDirective(el, droppable, hoverDelay) ==
    [el |-> el, droppable |-> droppable, acceptDrop |-> FALSE,
     droppableClasses |-> "can-drop", notDroppableClasses |-> "no-drop",
     hoverDelay |-> hoverDelay, dragging |-> FALSE, isDropTarget |-> FALSE,
     mouseEnterSubscription |-> "undefined", mouseLeaveSubscription |-> "undefined",
     leaked |-> FALSE, hoverTimer |-> <<>>, hover |-> FALSE,
     droppingSubscribed |-> TRUE, uncaught |-> "", errorUnsubscribes |-> TRUE]

DropInit ==
    /\ InitService
    /\ droppables = <<DroppableDirective("t1", "d1", 0),
                      DroppableDirective("t2", "d2", MaxHoverDelay)>>

DropOrigin(el) == <<IF el = "a" THEN 1 ELSE 2, srcBaseTop>>
DropXs == 1 .. MaxX

DropRegister ==
    \E el \in Sources :
        LET p == DropOrigin(el)
        IN  /\ regs < MaxRegs
            /\ p \in OriginPoints(el)
            /\ Commit(registerDraggable(Svc, [clientX |-> p[1], clientY |-> p[2]],
                        el, el, "#container", draggingClasses(el), draggedClasses(el), 1))
            /\ cursorBefore' = IF draggables = <<>> THEN cursor["container"] ELSE cursorBefore
            /\ last' = Reaction("registerDraggable", "#container")

DropMove ==
    \E x \in DropXs :
        /\ moveSub = "container" \/ moveLeaked["container"] > 0
        /\ Commit(onViewportMouseMove(Svc, x, srcBaseTop))
        /\ last' = Reaction("mousemove", moveOutcome(Svc, x, srcBaseTop))
        /\ UNCHANGED cursorBefore

\* The pointer crosses into drop target t: every subscribed mouseenter
\* subscriber of its host element runs (they all do the same to the one timer).
MouseEnter ==
    \E t \in 1 .. Len(droppables) :
        LET o == droppables[t]
            s1 == [Svc EXCEPT !.droppables[t].hover = TRUE]
        IN  /\ \A u \in 1 .. Len(droppables) : ~droppables[u].hover
            /\ Commit(IF o.mouseEnterSubscription = "open" \/ o.leaked
                      THEN mouseenterSubscriber(s1, t) ELSE s1)
            /\ last' = Reaction("mouseenter", t)
            /\ UNCHANGED cursorBefore

\* The pointer leaves drop target t.
MouseLeave ==
    \E t \in 1 .. Len(droppables) :
        LET o == droppables[t]
            s1 == [Svc EXCEPT !.droppables[t].hover = FALSE]
        IN  /\ o.hover
            /\ Commit(IF o.mouseLeaveSubscription = "open" \/ o.leaked
                      THEN mouseleaveSubscriber(s1, t) ELSE s1)
            /\ last' = Reaction("mouseleave", t)
            /\ UNCHANGED cursorBefore

\* Time passes: every pending hover timer that is not yet due gets nearer.
Tick ==
    /\ \E t \in 1 .. Len(droppables) :
        droppables[t].hoverTimer \notin {<<>>, <<0>>}
    /\ Commit([Svc EXCEPT !.droppables =
                [t \in 1 .. Len(droppables) |->
                    IF droppables[t].hoverTimer \in {<<>>, <<0>>} THEN droppables[t]
                    ELSE [droppables[t] EXCEPT !.hoverTimer = <<@[1] - 1>>]]])
    /\ last' = Reaction("tick", "")
    /\ UNCHANGED cursorBefore

\* A due hover timer fires: the delayed onMouseEnter runs.
HoverTimeout ==
    \E t \in 1 .. Len(droppables) :
        /\ droppables[t].hoverTimer = <<0>>
        /\ Commit(onMouseEnter([Svc EXCEPT !.droppables[t].hoverTimer = <<>>], t))
        /\ last' = Reaction("hoverTimeout", t)
        /\ UNCHANGED cursorBefore

DropNext ==
    \/ DropRegister
    \/ DropMove
    \/ MouseUp
    \/ MouseEnter
    \/ MouseLeave
    \/ Tick
    \/ HoverTimeout

DropSpec == DropInit /\ [][DropNext]_vars

\* ------------------------------------------------------------- late drop target
\* The page starts with the drop target "t1" alone; "t2" is constructed at
\* any later moment, also in the middle of a drag, and subscribes to the
\* service from then on.  The RxJS build the page runs is either one.
LateInit ==
    /\ InitService
    /\ droppables = <<DroppableDirective("t1", "d1", 0)>>

CreateDroppable ==
    \E b \in BOOLEAN :
        /\ Len(droppables) = 1
        /\ Commit([Svc EXCEPT !.droppables =
                    Append(@, [DroppableDirective("t2", "d2", MaxHoverDelay)
                                    EXCEPT !.errorUnsubscribes = b])])
        /\ last' = Reaction("createDroppable", "t2")
        /\ UNCHANGED cursorBefore

LateNext ==
    \/ CreateDroppable
    \/ DropRegister
    \/ DropMove
    \/ MouseUp
    \/ MouseEnter
    \/ MouseLeave
    \/ Tick
    \/ HoverTimeout

LateSpec == LateInit /\ [][LateNext]_vars

\* C11: endItemDrag on a record that is not dragging changes no record and
\* delivers no broadcast; on a dragging record it delivers exactly one
\* 'dropping', carrying the cancelled value of that call, and leaves the record
\* not dragging, so that a second call in a row is a call on a record that is
\* not dragging: no second broadcast, cancelled as the first call set it.
C11_EndItemDragIdempotent ==
    [][last'.op = "endItemDrag" =>
        LET i == last'.outcome.i
            d == draggables[i]
        IN  /\ ~d.isDragging =>
                /\ draggables' = draggables
                /\ emitted' = <<>>
                /\ delivered' = delivered
            /\ d.isDragging =>
                /\ Len(emitted') = 1
                /\ emitted'[1].channel = "dropping"
                /\ emitted'[1].draggable.id = d.id
                /\ emitted'[1].draggable.cancelled = last'.outcome.cancelled
                /\ draggables'[i] = [d EXCEPT !.isDragging = FALSE,
                                              !.cancelled = last'.outcome.cancelled]
    ]_vars

\* A second call after a first one that set cancelled = true: the record keeps
\* that value and has had a single 'dropping'.
C11_Witness ==
    /\ last.op = "endItemDrag"
    /\ last.pre = {}
    /\ emitted = <<>>
    /\ LET d == draggables[last.outcome.i]
       IN  /\ d.cancelled = "true"
           /\ last.outcome.cancelled = "undefined"
           /\ delivered[d.id].dropping = 1

\* The notifications of one kind that drop target t emitted, during the last
\* reaction, for record id.
Notified(kind, t, id) ==
    {n \in 1 .. Len(notified) :
        /\ notified[n].kind = kind
        /\ notified[n].target = t
        /\ notified[n].received.id = id}

Draggings == {k \in 1 .. Len(emitted) : emitted[k].channel = "dragging"}

\* C12: for each 'dragging' broadcast every drop target emits exactly one
\* test-drop notification, carrying the record's data and the target's own
\* droppable data; it is emitted, and the host has answered, while the ghost is
\* still where it was created, before the move that started the drag puts it
\* under the pointer.
C12_TestDropOnDragging ==
    /\ \A k \in Draggings : \A t \in 1 .. Len(droppables) :
        LET d == emitted[k].draggable
            ns == Notified("testDrop", t, d.id)
        IN  /\ Cardinality(ns) = 1
            /\ \A n \in ns :
                /\ notified[n].payload = [draggable |-> d.data,
                                          droppable |-> droppables[t].droppable]
                /\ notified[n].received.pos =
                        <<d.mouseDownEvent.clientX - d.grabPoint[1],
                          d.mouseDownEvent.clientY - d.grabPoint[2]>>
                /\ notified[n].received.dragEl[1].left = Px(notified[n].received.pos[1])
                /\ \A i \in 1 .. Len(draggables) :
                    draggables[i].id = d.id =>
                        draggables[i].pos = <<MoveX - d.grabPoint[1], MoveY - d.grabPoint[2]>>
            /\ (\A j \in Draggings : j <= k) =>
                    droppables[t].acceptDrop = hostAccepts(d.data, droppables[t].droppable)
    /\ Cardinality({n \in 1 .. Len(notified) : notified[n].kind = "testDrop"})
            = Cardinality(Draggings) * Len(droppables)

\* Two records start dragging in one move; both targets are asked about each.
C12_Witness ==
    /\ last.op = "mousemove"
    /\ Cardinality(Draggings) = 2
    /\ Len(droppables) = 2
    /\ Len(notified) = 4
    /\ \E t \in 1 .. 2 : droppables[t].acceptDrop
    /\ \E t \in 1 .. 2 : ~droppables[t].acceptDrop

\* C13: in every drop notification, isDropTarget is true exactly if the
\* pointer is over that target's element when the drag ends.
C13_DropTargetIffPointerOver ==
    \A n \in 1 .. Len(notified) :
        notified[n].kind = "drop" =>
            notified[n].payload.isDropTarget = droppables[notified[n].target].hover

\* The classes of both sets that drop target t carries.
DropClasses(t) ==
    classes[droppables[t].el]
        \cap {droppables[t].droppableClasses, droppables[t].notDroppableClasses}

\* C14: when a pointer entry is processed on a drop target during a drag, the
\* target carries the droppable classes alone if its accept flag is true and
\* the not-droppable classes alone if it is false; no target ever carries
\* classes of both sets.
C14_EnterClassesFollowAccept ==
    /\ (last.op = "hoverTimeout" /\ Dragging(draggables) # {}) =>
        LET o == droppables[last.outcome]
        IN  /\ o.isDropTarget
            /\ DropClasses(last.outcome) =
                    IF o.acceptDrop THEN {o.droppableClasses} ELSE {o.notDroppableClasses}
    /\ \A t \in 1 .. Len(droppables) : Cardinality(DropClasses(t)) <= 1

\* A processed entry on a target whose host rejected the dragged record.
C14_Witness ==
    /\ last.op = "hoverTimeout"
    /\ Dragging(draggables) # {}
    /\ ~droppables[last.outcome].acceptDrop
    /\ DropClasses(last.outcome) = {"no-drop"}

\* C15: for each 'dropping' broadcast every drop target emits exactly one drop
\* notification, and while no record is dragging (from a 'dropping' until the
\* next 'dragging') no target has its hit state set or carries a class of
\* either set, whatever mouseenter, mouseleave and hover timer events occur.
C15_DropResetsTarget ==
    /\ \A k \in Droppings : \A t \in 1 .. Len(droppables) :
        Cardinality(Notified("drop", t, emitted[k].draggable.id)) = 1
    /\ Cardinality({n \in 1 .. Len(notified) : notified[n].kind = "drop"})
            = Cardinality(Droppings) * Len(droppables)
    /\ Dragging(draggables) = {} =>
        \A t \in 1 .. Len(droppables) :
            /\ ~droppables[t].isDropTarget
            /\ DropClasses(t) = {}

\* A hover timer armed during a drag fires after the drop, the pointer still
\* over the target.
C15_Witness ==
    /\ last.op = "hoverTimeout"
    /\ draggables = <<>>
    /\ regs >= 1
    /\ droppables[last.outcome].hover
    /\ droppables[last.outcome].leaked \/ droppables[last.outcome].hoverDelay > 0

\* origin - source position, for the source where it is in the given scroll state.
GrabOffset(d, sc) ==
    <<d.mouseDownEvent.clientX - elRect(d.el, sc).left,
      d.mouseDownEvent.clientY - elRect(d.el, sc).top>>

\* C16: a record's grabPoint is set when its ghost is created, to
\* (origin.clientX - source.left, origin.clientY - source.top), and no later
\* step changes it while the record is tracked: not a move, a scroll or a
\* resize, and the record handed to the 'dropping' subscribers still has it.
C16_GrabPointSetOnce ==
    [][\A j \in 1 .. Len(draggables) :
        LET d == draggables[j]
        IN  /\ \A i \in 1 .. Len(draggables') :
                draggables'[i].id = d.id =>
                    /\ d.grabPoint # <<>> => draggables'[i].grabPoint = d.grabPoint
                    /\ (d.grabPoint = <<>> /\ draggables'[i].grabPoint # <<>>) =>
                        /\ d.dragEl = <<>>
                        /\ draggables'[i].dragEl # <<>>
                        /\ draggables'[i].grabPoint = GrabOffset(d, scroll)
                    /\ draggables'[i].dragEl # <<>> => draggables'[i].grabPoint # <<>>
            /\ \A k \in 1 .. Len(emitted') :
                (emitted'[k].draggable.id = d.id /\ d.grabPoint # <<>>) =>
                    emitted'[k].draggable.grabPoint = d.grabPoint
    ]_vars

\* A move is processed for a record that was already dragging, after its
\* source has scrolled away from where it was when the ghost was created.
C16_Witness ==
    /\ last.op = "mousemove" /\ last.outcome = "processed"
    /\ \E i \in 1 .. Len(draggables) :
        /\ draggables[i].isDragging
        /\ draggables[i].id \in last.pre
        /\ draggables[i].grabPoint # GrabOffset(draggables[i], scroll)

\* C17: isMouseOutsideViewport(x, y) is true exactly if x or y lies strictly
\* beyond an edge of the cached viewport rectangle; a pointer on an edge is
\* inside, and a move that was not held to be outside is within the edges.
C17_OutsideIffBeyondEdge ==
    /\ \A x \in Xs, y \in Ys :
        isMouseOutsideViewport(Svc, x, y) <=>
            ~(/\ viewportRect.left <= 2 * x /\ 2 * x <= viewportRect.right
              /\ viewportRect.top <= 2 * y /\ 2 * y <= viewportRect.bottom)
    /\ MoveInside =>
        /\ viewportRect.left <= 2 * MoveX /\ 2 * MoveX <= viewportRect.right
        /\ viewportRect.top <= 2 * MoveY /\ 2 * MoveY <= viewportRect.bottom

\* A move with the pointer exactly on the right and bottom edges is processed.
C17_Witness ==
    /\ last.op = "mousemove" /\ last.outcome = "processed"
    /\ 2 * MoveX = viewportRect.right
    /\ 2 * MoveY = viewportRect.bottom

\* C18: while no record is tracked (from deactivate until the next
\* registerDraggable) no auto-scroll timer is running.
C18_NoTimerUntilNextRegistration ==
    draggables = <<>> =>
        /\ timers = [x |-> 0, y |-> 0]
        /\ scrollXInterval = "none"
        /\ scrollYInterval = "none"

\* C19: at most one auto-scroll timer per axis is running, and it is the one
\* the service holds the handle of.
C19_AtMostOneTimerPerAxis ==
    /\ timers.x = IF scrollXInterval = "none" THEN 0 ELSE 1
    /\ timers.y = IF scrollYInterval = "none" THEN 0 ELSE 1

\* A move that finds a timer running on each axis (left by the move before)
\* and leaves one running on each.
C19_Witness ==
    /\ last.op = "mousemove"
    /\ last.n > 0
    /\ last.pre # {}
    /\ timers = [x |-> 1, y |-> 1]

\* C20: after registerDraggable the viewport is the element its
\* containerSelector matches, or the body if it matches nothing, and the cached
\* rectangle is that element's bounding rectangle.
C20_ViewportResolved ==
    last.op = "registerDraggable" =>
        /\ viewportElement = IF last.outcome = "#container" THEN "container" ELSE "body"
        /\ viewportRect = getBoundingClientRect(viewportElement, layout)

\* A second registration whose selector matches nothing.
C20_Witness ==
    /\ last.op = "registerDraggable"
    /\ last.outcome = "#missing"
    /\ regs = 2
    /\ viewportElement = "body"
    /\ layout = "narrow"

\* C21: one pointer-move reaction runs auto-scroll evaluation, outside check,
\* displacement, per-record processing in that order, and a guard that fires
\* skips the rest: a move outside the viewport changes no record, no ghost and
\* not the last-known pointer position and broadcasts nothing (the timers may
\* have been restarted); a move with displacement (0,0) changes no record and
\* no ghost and broadcasts nothing, and leaves the pointer position recorded.
C21_GuardsSkipLaterSteps ==
    [][last'.op = "mousemove" =>
        /\ last'.outcome = "outside" =>
            /\ draggables' = draggables
            /\ lastMousePos' = lastMousePos
            /\ ghosts' = ghosts
            /\ classes' = classes
            /\ emitted' = <<>>
        /\ last'.outcome = "still" =>
            /\ draggables' = draggables
            /\ ghosts' = ghosts
            /\ classes' = classes
            /\ emitted' = <<>>
            /\ lastMousePos' # <<>>
            /\ lastMousePos # <<>> => lastMousePos' = lastMousePos
    ]_vars

\* A move outside the cached viewport rectangle, beyond the threshold of a
\* tracked record that is not dragging yet, that started a horizontal timer
\* and moved neither the record nor the recorded pointer position.
C21_Witness ==
    /\ last.op = "mousemove" /\ last.outcome = "outside"
    /\ Len(draggables) = 1
    /\ ~draggables[1].isDragging
    /\ lastMousePos # <<>>
    /\ scrollXInterval = "inc"
    /\ \E x \in Xs, y \in Ys :
        /\ isMouseOutsideViewport(Svc, x, y)
        /\ startThresholdPassed(draggables[1], x, y)

\* C22: after a pointer move, a timer runs on an axis only if the pointer was
\* at or beyond an edge on that axis (the near edge, or the far edge minus its
\* bias) and the viewport has room left to scroll that way: a decreasing timer
\* needs an offset above 0, an increasing one an offset below the maximum.
C22_TimerOnlyWithRoom ==
    last.op = "mousemove" =>
        /\ scrollXInterval = "dec" => scroll[viewportElement].left > 0
        /\ scrollXInterval = "inc" =>
                scroll[viewportElement].left < maxScrollLeft(viewportElement)
        /\ scrollYInterval = "dec" => scroll[viewportElement].top > 0
        /\ scrollYInterval = "inc" =>
                scroll[viewportElement].top < maxScrollTop(viewportElement)
        /\ MoveInside =>
            /\ scrollXInterval = "dec" => MoveX <= Round(viewportRect.left)
            /\ scrollXInterval = "inc" =>
                    MoveX >= Round(viewportRect.right - 2 * rightBias)
            /\ scrollYInterval = "dec" => MoveY <= Round(viewportRect.top)
            /\ scrollYInterval = "inc" =>
                    MoveY >= Round(viewportRect.bottom - 2 * bottomBias)

\* The one-shot listeners of activate that are still armed, over all targets.
ArmedOneShots ==
    upListeners["body"] + upListeners["container"]
    + downListeners["body"] + downListeners["container"]
    + winUp + winKey + winBlur

\* C23: after a drag has ended by any route, no listener an activation armed
\* is left: no one-shot listener on the viewport or the window, no mousemove
\* and no resize subscription, so their number does not grow with the number
\* of completed drags.
C23_NoListenerLeftArmed ==
    last.op \in EndOps =>
        /\ ArmedOneShots = 0
        /\ moveSub = "none"
        /\ \A e \in Elements : moveLeaked[e] = 0
        /\ ~resizeSub
        /\ resizeLeaked = 0

\* The 'dropping' broadcasts of the coming reaction for record id.
DroppingsNext(id) ==
    {k \in 1 .. Len(emitted') :
        emitted'[k].channel = "dropping" /\ emitted'[k].draggable.id = id}

\* C24: the broadcasts are paired per record.  A 'dropping' is delivered
\* only for a record that has received 'dragging' and no 'dropping' since, and
\* only once; a 'dragging' only for a tracked record that has not received one;
\* an end reaction (deactivate) delivers exactly one 'dropping' to every record
\* that has received 'dragging' and nothing to a record that has not, so a
\* registration that ends before its threshold produces neither broadcast.
C24_BroadcastsPaired ==
    [][/\ \A k \in 1 .. Len(emitted') :
            LET id == emitted'[k].draggable.id
            IN  /\ emitted'[k].channel = "dropping" =>
                    /\ delivered[id].dragging = 1
                    /\ delivered[id].dropping = 0
                    /\ Cardinality(DroppingsNext(id)) = 1
                    /\ last'.op \in EndOps
                /\ emitted'[k].channel = "dragging" =>
                    /\ delivered[id].dragging = 0
                    /\ \E i \in 1 .. Len(draggables) : draggables[i].id = id
                    /\ last'.op = "mousemove"
       /\ last'.op \in EndOps =>
            \A id \in 1 .. MaxRegs :
                Cardinality(DroppingsNext(id)) = delivered[id].dragging
    ]_vars

\* deactivate has returned for two records: one had received 'dragging' and
\* got its one 'dropping', the other ended before its threshold and got none.
C24_Witness ==
    /\ last.op \in EndOps
    /\ last.n = 2
    /\ Cardinality(last.pre) = 1
    /\ Len(emitted) = 1
    /\ emitted[1].channel = "dropping"
    /\ emitted[1].draggable.id \in last.pre
    /\ draggables = <<>>

\* The targets that report isDropTarget = true in the drop notifications of
\* the 'dropping' broadcast for record id.
HitTargets(id) ==
    {t \in 1 .. Len(droppables) :
        \E n \in Notified("drop", t, id) : notified[n].payload.isDropTarget}

\* C25: the drop targets do not overlap, so at most one of them reports
\* isDropTarget = true in the drop notifications of one 'dropping' broadcast,
\* and a target's hit state is true only while the pointer is over its
\* element, also in a drag that follows another and on a target with a
\* positive hover delay.
C25_AtMostOneHitTarget ==
    /\ \A id \in 1 .. MaxRegs : Cardinality(HitTargets(id)) <= 1
    /\ \A t \in 1 .. Len(droppables) :
        (droppables[t].hoverDelay > 0 /\ droppables[t].isDropTarget) =>
            droppables[t].hover

C27_LateSubscriberHandlesDropping ==
    /\ \A t \in 1 .. Len(droppables) :
        /\ droppables[t].uncaught = ""
        /\ droppables[t].droppingSubscribed
    /\ last.op \in EndOps =>
        /\ draggables = <<>>
        /\ \A t \in 1 .. Len(droppables) :
            /\ \A k \in Droppings :
                Cardinality(Notified("drop", t, emitted[k].draggable.id)) = 1
            /\ ~droppables[t].dragging
            /\ ~droppables[t].isDropTarget
            /\ DropClasses(t) = {}

====
